---- MODULE Spec2Model ----
(***************************************************************************)
(* A model of scripts/unsupervised.py: the main() pipeline that ingests    *)
(* count tables, normalizes, filters, reduces, clusters, colour-encodes    *)
(* and splits the results per dataset.                                     *)
(*                                                                         *)
(* Text is modelled as sequences of one-character strings, so that the     *)
(* script's substring tests, splits, prefix tests and number formatting    *)
(* are computed and not assumed.  Numbers of the matrices are IEEE-like    *)
(* values: an exact rational, NaN, or a signed infinity.                   *)
(***************************************************************************)
EXTENDS Integers, Sequences, FiniteSets, TLC

\* ------------------------------------------------------------------ bounds
\* Largest raw count of an input table entry.
MaxCount == 1
\* Largest label the clusterer returns.
MaxLabel == 2
\* Largest reduced coordinate the reducer returns (coordinates are 0..MaxCoord).
MaxCoord == 1

\* ------------------------------------------------------- program constants
MIN_EXPRESION == 2

\* ------------------------------------------------------------------- text
Digits == <<"0", "1", "2", "3", "4", "5", "6", "7", "8", "9">>

IsDigit(c) == \E i \in 1..10 : Digits[i] = c

DigitVal(c) == (CHOOSE i \in 1..10 : Digits[i] = c) - 1

RECURSIVE IntToStr(_)
\* "{}".format(n) for an integer n >= 0
IntToStr(n) == IF n < 10 THEN <<Digits[n + 1]>>
               ELSE IntToStr(n \div 10) \o <<Digits[(n % 10) + 1]>>

RECURSIVE DigitsToInt(_)
\* the value of a string of digits ("" counts 0)
DigitsToInt(s) == IF s = <<>> THEN 0
                  ELSE 10 * DigitsToInt(SubSeq(s, 1, Len(s) - 1)) + DigitVal(s[Len(s)])

AllDigits(s) == \A i \in 1..Len(s) : IsDigit(s[i])

\* python: a in b, for strings
IsSubstr(a, b) == \E i \in 0..(Len(b) - Len(a)) : SubSeq(b, i + 1, i + Len(a)) = a

\* python: s.startswith(p)
StartsWith(s, p) == Len(p) <= Len(s) /\ SubSeq(s, 1, Len(p)) = p

RECURSIVE Split(_, _)
\* python: s.split(sep) for a one-character separator
Split(s, sep) ==
    IF \A i \in 1..Len(s) : s[i] # sep THEN <<s>>
    ELSE LET i == CHOOSE j \in 1..Len(s) : s[j] = sep /\ \A k \in 1..(j - 1) : s[k] # sep
         IN  <<SubSeq(s, 1, i - 1)>> \o Split(SubSeq(s, i + 1, Len(s)), sep)

\* python: "{0}_{1}".format(i, spot)
TagSpot(i, spot) == IntToStr(i) \o <<"_">> \o spot

\* python: "{}_".format(i)
DatasetPrefix(i) == IntToStr(i) \o <<"_">>

\* ---------------------------------------------------------------- numbers
Abs(n) == IF n < 0 THEN -n ELSE n

RECURSIVE GCD(_, _)
GCD(a, b) == IF b = 0 THEN a ELSE GCD(b, a % b)

NaN == [k |-> "nan", n |-> 0, d |-> 1]
PInf == [k |-> "inf", n |-> 1, d |-> 1]
NInf == [k |-> "inf", n |-> -1, d |-> 1]

\* the rational n/d (d # 0) in lowest terms with a positive denominator
Num(n, d) == LET g == GCD(Abs(n), Abs(d))
                 s == IF d < 0 THEN -1 ELSE 1
             IN  [k |-> "num", n |-> (s * n) \div g, d |-> (s * d) \div g]

Zero == Num(0, 1)
One == Num(1, 1)

IsNum(v) == v.k = "num"
IsNaN(v) == v.k = "nan"
IsInf(v) == v.k = "inf"
Sign(v) == IF v.n > 0 THEN 1 ELSE IF v.n < 0 THEN -1 ELSE 0

\* IEEE / numpy addition
VAdd(a, b) ==
    IF IsNaN(a) \/ IsNaN(b) THEN NaN
    ELSE IF IsInf(a) /\ IsInf(b) THEN (IF a.n = b.n THEN a ELSE NaN)
    ELSE IF IsInf(a) THEN a
    ELSE IF IsInf(b) THEN b
    ELSE Num(a.n * b.d + b.n * a.d, a.d * b.d)

VNeg(a) == IF IsNaN(a) THEN NaN ELSE IF IsInf(a) THEN [a EXCEPT !.n = -a.n] ELSE Num(-a.n, a.d)

VSub(a, b) == VAdd(a, VNeg(b))

\* IEEE / numpy multiplication
VMul(a, b) ==
    IF IsNaN(a) \/ IsNaN(b) THEN NaN
    ELSE IF IsInf(a) \/ IsInf(b)
         THEN (IF Sign(a) * Sign(b) = 0 THEN NaN
               ELSE IF Sign(a) * Sign(b) > 0 THEN PInf ELSE NInf)
    ELSE Num(a.n * b.n, a.d * b.d)

\* IEEE / numpy / pandas true division: x/0 is +-inf, 0/0 is nan
VDiv(a, b) ==
    IF IsNaN(a) \/ IsNaN(b) THEN NaN
    ELSE IF IsInf(b) THEN (IF IsInf(a) THEN NaN ELSE Zero)
    ELSE IF b.n = 0
         THEN (IF Sign(a) = 0 THEN NaN ELSE IF Sign(a) > 0 THEN PInf ELSE NInf)
    ELSE IF IsInf(a) THEN (IF Sign(a) * Sign(b) > 0 THEN PInf ELSE NInf)
    ELSE Num(a.n * b.d, a.d * b.n)

\* a < b and a <= b; any comparison with NaN is false
VLt(a, b) ==
    IF IsNaN(a) \/ IsNaN(b) THEN FALSE
    ELSE IF IsInf(a) THEN a.n < 0 /\ ~(IsInf(b) /\ b.n < 0)
    ELSE IF IsInf(b) THEN b.n > 0
    ELSE a.n * b.d < b.n * a.d

VLe(a, b) == ~IsNaN(a) /\ ~IsNaN(b) /\ (a = b \/ VLt(a, b))

VGe(a, b) == VLe(b, a)

\* a != 0 (NaN != 0 is true)
VNonZero(a) == ~(IsNum(a) /\ a.n = 0)

\* a finite float: a rational, or the (irrational) logarithm of one
IsFinite(v) == v.k \in {"num", "lg"}

\* numpy log2(v + 1); the logarithm of a positive rational other than 1 is kept
\* as the finite value [k |-> "lg"] of that rational
Log2Plus1(v) ==
    IF IsNaN(v) THEN NaN
    ELSE IF IsInf(v) THEN (IF v.n > 0 THEN PInf ELSE NaN)
    ELSE IF v.k = "lg" THEN v
    ELSE LET x == VAdd(v, One)
         IN  IF x.n < 0 THEN NaN
             ELSE IF x.n = 0 THEN NInf
             ELSE IF x = One THEN Zero
             ELSE [k |-> "lg", n |-> x.n, d |-> x.d]

RECURSIVE SumSeq(_)
SumSeq(s) == IF s = <<>> THEN 0 ELSE s[1] + SumSeq(Tail(s))

RECURSIVE VSumSeq(_)
VSumSeq(s) == IF s = <<>> THEN Zero ELSE VAdd(s[1], VSumSeq(Tail(s)))

\* the values of s that are not NaN (pandas skipna / dropna)
DropNaN(s) == SelectSeq(s, LAMBDA v : ~IsNaN(v))

\* python 2 round() of the non-negative rational n/d: half away from zero
RoundHalfUp(n, d) == (2 * n + d) \div (2 * d)

RECURSIVE SortValues(_)
\* ascending order of a sequence of values without NaN
SortValues(s) ==
    IF s = <<>> THEN <<>>
    ELSE LET i == CHOOSE j \in 1..Len(s) : \A k \in 1..Len(s) : VLe(s[j], s[k])
         IN  <<s[i]>> \o SortValues(SubSeq(s, 1, i - 1) \o SubSeq(s, i + 1, Len(s)))

\* pandas Series.quantile(p/100): NaN dropped, linear interpolation between
\* the order statistics around position (p/100)*(n-1); NaN for no values
Quantile(s, p) ==
    LET v == SortValues(DropNaN(s))
        n == Len(v)
        lo == (p * (n - 1)) \div 100
        r == (p * (n - 1)) % 100
    IN  IF n = 0 THEN NaN
        ELSE IF r = 0 THEN v[lo + 1]
        ELSE VAdd(v[lo + 1], VMul(VSub(v[lo + 2], v[lo + 1]), Num(r, 100)))

\* pandas var(): NaN skipped, sample variance (ddof = 1), NaN below two values
Variance(s) ==
    LET v == DropNaN(s)
        n == Len(v)
        sum == VSumSeq(v)
        sq == VSumSeq([i \in 1..n |-> VMul(v[i], v[i])])
    IN  IF n < 2 THEN NaN
        ELSE IF \E i \in 1..n : IsInf(v[i]) THEN NaN
        ELSE VDiv(VSub(VMul(Num(n, 1), sq), VMul(sum, sum)), Num(n * (n - 1), 1))

\* python 2 round() of a non-negative value; round(nan) is nan
RoundValue(v) == IF IsNum(v) THEN Num(RoundHalfUp(v.n, v.d), 1) ELSE v

RECURSIVE Asc(_)
\* the elements of a finite set of integers in ascending order
Asc(S) == IF S = {} THEN <<>>
          ELSE LET m == CHOOSE x \in S : \A y \in S : x <= y
               IN  <<m>> \o Asc(S \ {m})

Range(s) == {s[i] : i \in 1..Len(s)}

\* ---------------------------------------------------------------- floats
\* python float(tok) for a decimal token: digits, optionally "." and digits.
\* The result is [ok |-> FALSE] where float() raises ValueError.
ParseFloat(tok) ==
    LET parts == Split(tok, ".")
        whole == parts[1]
        frac == IF Len(parts) = 2 THEN parts[2] ELSE <<>>
        Pow10[e \in 0..Len(frac)] == IF e = 0 THEN 1 ELSE 10 * Pow10[e - 1]
    IN  IF Len(parts) > 2 \/ ~AllDigits(whole) \/ ~AllDigits(frac)
           \/ Len(whole) + Len(frac) = 0
        THEN [ok |-> FALSE, val |-> NaN]
        ELSE [ok |-> TRUE, val |-> Num(DigitsToInt(whole \o frac), Pow10[Len(frac)])]

RECURSIVE FracDigits(_, _)
\* the decimal digits of rem/d (0 <= rem < d), for a terminating expansion
FracDigits(rem, d) ==
    IF rem = 0 THEN <<>>
    ELSE <<Digits[((rem * 10) \div d) + 1]>> \o FracDigits((rem * 10) % d, d)

\* python 2 "{}".format(x) for a non-negative float x with a short terminating
\* decimal expansion: always a decimal point, "3.0" for 3
FormatFloat(v) ==
    LET whole == v.n \div v.d
        frac == FracDigits(v.n % v.d, v.d)
    IN  IntToStr(whole) \o <<".">> \o (IF frac = <<>> THEN <<"0">> ELSE frac)

\* --------------------------------------------------------------- matrices
\* A data frame: row labels, column labels, and the rows of values.
EmptyFrame == [index |-> <<>>, columns |-> <<>>, v |-> <<>>]

NRows(m) == Len(m.index)
NCols(m) == Len(m.columns)

Column(m, c) == [r \in 1..NRows(m) |-> m.v[r][c]]

\* the frame with the rows at the positions of S, in order
SelectRows(m, S) ==
    LET p == Asc(S)
    IN  [index |-> [j \in 1..Len(p) |-> m.index[p[j]]],
         columns |-> m.columns,
         v |-> [j \in 1..Len(p) |-> m.v[p[j]]]]

\* the frame with the columns at the positions of S, in order
SelectCols(m, S) ==
    LET p == Asc(S)
    IN  [index |-> m.index,
         columns |-> [j \in 1..Len(p) |-> m.columns[p[j]]],
         v |-> [r \in 1..NRows(m) |-> [j \in 1..Len(p) |-> m.v[r][p[j]]]]]

\* pandas DataFrame.replace([inf, -inf], nan): returns a NEW frame
ReplaceInf(m) ==
    [m EXCEPT !.v = [r \in 1..NRows(m) |-> [c \in 1..NCols(m) |->
                        IF IsInf(m.v[r][c]) THEN NaN ELSE m.v[r][c]]]]

\* pandas DataFrame.fillna(0.0, inplace=True)
FillNa(m) ==
    [m EXCEPT !.v = [r \in 1..NRows(m) |-> [c \in 1..NCols(m) |->
                        IF IsNaN(m.v[r][c]) THEN Zero ELSE m.v[r][c]]]]

\* np.log2(norm_counts + 1)
LogFrame(m) ==
    [m EXCEPT !.v = [r \in 1..NRows(m) |-> [c \in 1..NCols(m) |-> Log2Plus1(m.v[r][c])]]]

\* frame * scalar
ScaleFrame(m, x) ==
    [m EXCEPT !.v = [r \in 1..NRows(m) |-> [c \in 1..NCols(m) |-> VMul(m.v[r][c], x)]]]

\* every gene name the inputs use, in the (sorted) order pandas gives the
\* columns of a concatenation
GeneOrder == <<"A", "B">>

PositionOf(s, x) == CHOOSE j \in 1..Len(s) : s[j] = x

\* the value of row r of a frame at column label g, NaN where the frame has no such column
ValueAt(m, r, g) == IF g \in Range(m.columns) THEN m.v[r][PositionOf(m.columns, g)] ELSE NaN

\* pandas counts.append(new_counts): rows stacked, columns joined (outer), NaN
\* where a frame lacks a column
AppendFrame(m, new) ==
    LET cols == SelectSeq(GeneOrder, LAMBDA g : g \in Range(m.columns) \cup Range(new.columns))
    IN  [index |-> m.index \o new.index,
         columns |-> cols,
         v |-> [r \in 1..(NRows(m) + NRows(new)) |->
                  [c \in 1..Len(cols) |->
                     IF r <= NRows(m) THEN ValueAt(m, r, cols[c])
                     ELSE ValueAt(new, r - NRows(m), cols[c])]]]

\* pd.read_table of input file number i (0-based): the table as a frame of counts
ReadTable(t) ==
    [index |-> t.keys, columns |-> t.genes,
     v |-> [r \in 1..Len(t.keys) |-> [c \in 1..Len(t.genes) |-> Num(t.rows[r][c], 1)]]]

\* new_counts.index = ["{0}_{1}".format(i, spot) ...]
TagFrame(m, i) == [m EXCEPT !.index = [r \in 1..NRows(m) |-> TagSpot(i, m.index[r])]]

\* new_counts.sum(axis=0): the total of each gene (column) of one dataset
GeneTotals(m) == [c \in 1..NCols(m) |-> VSumSeq(DropNaN(Column(m, c)))]

\* ------------------------------------------------------- strategy names
sDESeq == <<"D", "E", "S", "e", "q">>
sDESeq2 == <<"D", "E", "S", "e", "q", "2">>
sDESeq2Log == <<"D", "E", "S", "e", "q", "2", "L", "o", "g">>
sEdgeR == <<"E", "d", "g", "e", "R">>
sREL == <<"R", "E", "L">>
sRAW == <<"R", "A", "W">>
stSNE == <<"t", "S", "N", "E">>
sPCA == <<"P", "C", "A">>
sICA == <<"I", "C", "A">>
sSPCA == <<"S", "P", "C", "A">>
sKMeans == <<"K", "M", "e", "a", "n", "s">>
sHierarchical == <<"H", "i", "e", "r", "a", "r", "c", "h", "i", "c", "a", "l">>

\* the if/elif chain of the per-spot normalization: the strategy that runs for
\* a configured name, "none" for the else branch
NormalizationBranch(name) ==
    IF IsSubstr(name, sDESeq) THEN "DESeq"
    ELSE IF IsSubstr(name, sDESeq2) THEN "DESeq2"
    ELSE IF IsSubstr(name, sDESeq2Log) THEN "DESeq2Log"
    ELSE IF IsSubstr(name, sEdgeR) THEN "EdgeR"
    ELSE IF IsSubstr(name, sREL) THEN "REL"
    ELSE IF IsSubstr(name, sRAW) THEN "RAW"
    ELSE "none"

\* the if/elif chain that builds decomp_model: the algorithm constructed for a
\* configured name, "none" for the else branch
ReducerBranch(name) ==
    IF IsSubstr(stSNE, name) THEN "TSNE"
    ELSE IF IsSubstr(sPCA, name) THEN "PCA"
    ELSE IF IsSubstr(sICA, name) THEN "FastICA"
    ELSE IF IsSubstr(sSPCA, name) THEN "SparsePCA"
    ELSE "none"

\* the if/elif chain that builds the clustering object
ClustererBranch(name) ==
    IF IsSubstr(sKMeans, name) THEN "KMeans"
    ELSE IF IsSubstr(sHierarchical, name) THEN "AgglomerativeClustering"
    ELSE "none"

\* ------------------------------------------- normalizers of stanalysis
\* The size-factor functions live in stanalysis.normalization.  A size factor
\* is a positive scalar; the irrational values of the median-of-ratios formula
\* are abstracted to a choice among these.
PosFactors == {One, Num(2, 1)}

\* computeSizeFactors (DESeq median of ratios) over a frame whose rows are the
\* units: the median runs over the genes with a strictly positive geometric
\* mean, i.e. positive in every unit; with no such gene it is undefined (NaN)
computeSizeFactors(m) ==
    IF \E c \in 1..NCols(m) : \A r \in 1..NRows(m) : IsNum(m.v[r][c]) /\ m.v[r][c].n > 0
    THEN [1..NRows(m) -> PosFactors]
    ELSE {[r \in 1..NRows(m) |-> NaN]}

\* computeSizeFactorsLinear: one positive factor per unit
computeSizeFactorsLinear(m) == [1..NRows(m) -> PosFactors]

\* computeEdgeRNormalization: one positive factor per unit
computeEdgeRNormalization(m) == [1..NRows(m) -> PosFactors]

\* computeDESeq2LogTransform: a frame of the same shape with finite values
LogTransformValues == {Zero, One}

computeDESeq2LogTransform(m) ==
    {[m EXCEPT !.v = w] : w \in [1..NRows(m) -> [1..NCols(m) -> LogTransformValues]]}

\* counts / size_factors: every value of a unit's row divided by its factor
DivideRows(m, f) ==
    [m EXCEPT !.v = [r \in 1..NRows(m) |-> [c \in 1..NCols(m) |-> VDiv(m.v[r][c], f[r])]]]

\* np.mean(size_factors)
MeanOf(f) == VDiv(VSumSeq(f), Num(Len(f), 1))

\* counts.sum(axis=0) of the genes x spots frame: the total of each spot
SpotTotals(m) == [r \in 1..NRows(m) |-> VSumSeq(DropNaN(m.v[r]))]

\* the frames the branch of the per-spot normalization can produce
NormalizedFrames(branch, m) ==
    IF branch = "DESeq" THEN {DivideRows(m, f) : f \in computeSizeFactors(m)}
    ELSE IF branch = "DESeq2" THEN {DivideRows(m, f) : f \in computeSizeFactorsLinear(m)}
    ELSE IF branch = "DESeq2Log" THEN computeDESeq2LogTransform(m)
    ELSE IF branch = "EdgeR"
         THEN {ScaleFrame(DivideRows(m, f), MeanOf(f))
                 : f \in computeEdgeRNormalization(m)}
    ELSE IF branch = "REL" THEN {DivideRows(m, SpotTotals(m))}
    ELSE {m}

\* ------------------------------------------------------------------ state
VARIABLES
    counts_table_files,        \* the input tables, as read from their files
    normalization,             \* configured names, as text
    clustering_algorithm,
    dimensionality_algorithm,
    use_log_scale,
    apply_sample_normalization,
    num_exp_genes,             \* percentages, as given on the command line
    num_genes_keep,
    alignment_files,           \* [none, len]: None, or a list of that length
    image_files,
    num_dimensions,
    reducer_response,          \* what decomp_model.fit_transform answers
    clusterer_response,        \* what clustering.fit_predict answers
    pc,                        \* the position of main()
    error,                     \* why the process ended, "none" while it runs
    i,                         \* the running loop's index
    outputs,                   \* the files written so far
    counts,
    sample_counts,
    min_genes_spot_exp,
    norm_counts,
    norm_applied,              \* the normalization branch that ran
    normalized_files,          \* the row labels of normalized_counts_{i}.tsv
    decomp_model,
    fit_input,                 \* the values handed to fit_transform
    reduced_data,
    clustering,
    labels,
    labels_colors,
    axes_read,                 \* the column indices read from reduced_data
    file_writers,              \* per dataset: "unopened", "open" or "closed"
    label_files                \* the rows of computed_classes_{i}.txt

inputs == <<counts_table_files, normalization, clustering_algorithm,
            dimensionality_algorithm, use_log_scale, apply_sample_normalization,
            num_exp_genes, num_genes_keep, alignment_files, image_files,
            num_dimensions, reducer_response, clusterer_response>>

ingestion == <<counts, sample_counts>>
selection == <<min_genes_spot_exp, norm_counts, norm_applied, normalized_files>>
reduction == <<decomp_model, fit_input, reduced_data>>
classes == <<clustering, labels, labels_colors, axes_read>>
writing == <<file_writers, label_files>>

vars == <<inputs, pc, error, i, outputs, ingestion, selection, reduction, classes, writing>>

NumDatasets == Len(counts_table_files)

\* sys.exit(1) after an error message
Exit(why) == pc' = "exit" /\ error' = why

\* an uncaught exception
Raise(what) == pc' = "crashed" /\ error' = what

Goto(next) == pc' = next /\ error' = error

\* lines 64-78: the checks on the arguments
Validate ==
    /\ pc = "validate"
    /\ IF NumDatasets = 0 \/ \E t \in Range(counts_table_files) : ~t.isfile
       THEN Exit("input")
       ELSE IF ~image_files.none /\ image_files.len > 0 /\ image_files.len # NumDatasets
       THEN Exit("images")
       ELSE IF ~alignment_files.none /\ alignment_files.len > 0
       THEN (IF image_files.none THEN Raise("TypeError")
             ELSE IF alignment_files.len # image_files.len THEN Exit("alignments")
             ELSE Goto("ingest"))
       ELSE Goto("ingest")
    /\ UNCHANGED <<inputs, i, outputs, ingestion, selection, reduction, classes, writing>>

\* lines 86-104: one round of the loop over the input files
Ingest ==
    /\ pc = "ingest"
    /\ i < NumDatasets
    /\ LET new_counts == TagFrame(ReadTable(counts_table_files[i + 1]), i)
       IN  /\ outputs' = outputs \cup {<<"hist_reads", i>>, <<"hist_genes", i>>}
           /\ counts' = AppendFrame(counts, new_counts)
           /\ sample_counts' =
                 IF apply_sample_normalization
                 THEN Append(sample_counts,
                             [columns |-> new_counts.columns, sums |-> GeneTotals(new_counts)])
                 ELSE sample_counts
    /\ i' = i + 1
    /\ Goto(IF i + 1 < NumDatasets THEN "ingest" ELSE "clean")
    /\ UNCHANGED <<inputs, selection, reduction, classes, writing>>

\* lines 105-111: counts.replace(...) returns a frame that is dropped, fillna
\* works in place; the merged matrix is written for more than one dataset
CleanMerged ==
    /\ pc = "clean"
    /\ LET dropped == ReplaceInf(counts)
       IN  counts' = FillNa(counts)
    /\ outputs' = IF NumDatasets > 1 THEN outputs \cup {<<"aggregated_counts", 0>>} ELSE outputs
    /\ Goto("sample_norm")
    /\ UNCHANGED <<inputs, i, sample_counts, selection, reduction, classes, writing>>

\* spot.split("x") must give two tokens (the assert of lines 136 and 306)
SpotTokens(spot) == Split(spot, "x")

\* a faulty routing that sends every spot to the first dataset
DatasetIndexOf_First(spot) == 0

\* int(tokens[0].split("_")[0]): the dataset a tagged spot came from
DatasetIndexOf(spot) == DigitsToInt(Split(SpotTokens(spot)[1], "_")[1])

\* lines 118-126: the datasets x genes frame of accumulated gene counts
PerSampleFactors ==
    [index |-> [k \in 1..Len(sample_counts) |-> IntToStr(k - 1)],
     columns |-> counts.columns,
     v |-> [k \in 1..Len(sample_counts) |->
              [c \in 1..NCols(counts) |->
                 IF counts.columns[c] \in Range(sample_counts[k].columns)
                 THEN sample_counts[k].sums[PositionOf(sample_counts[k].columns,
                                                       counts.columns[c])]
                 ELSE NaN]]]

\* lines 113-143: one size factor per dataset, every spot divided by the factor
\* of its dataset; again replace() changes nothing and fillna cleans the NaN
SampleNormalize ==
    /\ pc = "sample_norm"
    /\ IF apply_sample_normalization /\ NumDatasets > 1
       THEN \E per_sample_size_factors \in computeSizeFactors(FillNa(PerSampleFactors)) :
               IF \E r \in 1..NRows(counts) : Len(SpotTokens(counts.index[r])) # 2
               THEN Raise("AssertionError") /\ counts' = counts
               ELSE /\ counts' = FillNa(DivideRows(counts,
                          [r \in 1..NRows(counts) |->
                             per_sample_size_factors[DatasetIndexOf(counts.index[r]) + 1]]))
                    /\ Goto("spot_filter")
       ELSE counts' = counts /\ Goto("spot_filter")
    /\ UNCHANGED <<inputs, i, outputs, sample_counts, selection, reduction, classes, writing>>

\* (counts != 0).sum(axis=1): the number of expressed genes of every spot
NonZeroGenes(m) ==
    [r \in 1..NRows(m) |-> Num(Cardinality({c \in 1..NCols(m) : VNonZero(m.v[r][c])}), 1)]

\* line 148: round((counts != 0).sum(axis=1).quantile(num_exp_genes / 100.0))
MinGenesSpotExp(m, percent) == RoundValue(Quantile(NonZeroGenes(m), percent))

\* a faulty test that drops the spots at the threshold
KeepSpot_Strict(expressed, threshold) == VLt(threshold, expressed)

\* line 151: the test a spot passes to be kept
KeepSpot(expressed, threshold) == VGe(expressed, threshold)

\* lines 145-152: the spot filter
SpotFilter ==
    /\ pc = "spot_filter"
    /\ min_genes_spot_exp' = MinGenesSpotExp(counts, num_exp_genes)
    /\ counts' = SelectRows(counts,
                    {r \in 1..NRows(counts) :
                        KeepSpot(NonZeroGenes(counts)[r], min_genes_spot_exp')})
    /\ Goto("gene_filter")
    /\ UNCHANGED <<inputs, i, outputs, sample_counts, norm_counts, norm_applied,
                   normalized_files, reduction, classes, writing>>

\* line 158: round(len(counts.columns) * 0.01), the columns being the spots
MinFeaturesGene(m) == RoundHalfUp(NRows(m), 100)

\* lines 154-162: the gene filter (the transposition changes the orientation
\* of the frame only; the model keeps spots as rows throughout)
GeneFilter ==
    /\ pc = "gene_filter"
    /\ counts' = SelectCols(counts,
                    {c \in 1..NCols(counts) :
                        Cardinality({r \in 1..NRows(counts) :
                                        VGe(counts.v[r][c], Num(MIN_EXPRESION, 1))})
                           >= MinFeaturesGene(counts)})
    /\ Goto("normalize")
    /\ UNCHANGED <<inputs, i, outputs, sample_counts, selection, reduction, classes, writing>>

\* lines 164-185: the per-spot normalization
PerSpotNormalize ==
    /\ pc = "normalize"
    /\ LET branch == NormalizationBranch(normalization)
       IN  IF branch = "none"
           THEN Exit("normalization") /\ UNCHANGED <<norm_counts, norm_applied>>
           ELSE \E normalized \in NormalizedFrames(branch, counts) :
                   /\ norm_counts' = normalized
                   /\ norm_applied' = branch
                   /\ Goto("variance_filter")
    /\ UNCHANGED <<inputs, i, outputs, ingestion, min_genes_spot_exp, normalized_files,
                   reduction, classes, writing>>

\* norm_counts.var(axis=1): the variance of every gene over the spots
GeneVariances(m) == [c \in 1..NCols(m) |-> Variance(Column(m, c))]

\* lines 187-197: the genes below the quantile of the variances are dropped
VarianceFilter ==
    /\ pc = "variance_filter"
    /\ LET min_genes_spot_var == Quantile(GeneVariances(norm_counts), num_genes_keep)
       IN  norm_counts' = SelectCols(norm_counts,
                             {c \in 1..NCols(norm_counts) :
                                 VGe(GeneVariances(norm_counts)[c], min_genes_spot_var)})
    /\ Goto("write_normalized")
    /\ UNCHANGED <<inputs, i, outputs, ingestion, min_genes_spot_exp, norm_applied,
                   normalized_files, reduction, classes, writing>>

\* line 202: the spots of dataset number d, by their prefix
SpotsToKeep(tot_spots, d) == SelectSeq(tot_spots, LAMBDA spot : StartsWith(spot, DatasetPrefix(d)))

\* line 204: spot.split("_")[1]
StripPrefix(spot) == Split(spot, "_")[2]

\* lines 199-205: one normalized_counts_{i}.tsv per dataset
WriteNormalized ==
    /\ pc = "write_normalized"
    /\ normalized_files' =
          [d \in 1..NumDatasets |->
             LET keep == SpotsToKeep(norm_counts.index, d - 1)
             IN  [j \in 1..Len(keep) |-> StripPrefix(keep[j])]]
    /\ outputs' = outputs \cup {<<"normalized_counts", d>> : d \in 0..(NumDatasets - 1)}
    /\ Goto("select_reducer")
    /\ UNCHANGED <<inputs, i, ingestion, min_genes_spot_exp, norm_counts, norm_applied,
                   reduction, classes, writing>>

\* lines 207-228: the reducer is built, or the name is rejected
SelectReducer ==
    /\ pc = "select_reducer"
    /\ LET branch == ReducerBranch(dimensionality_algorithm)
       IN  IF branch = "none"
           THEN Exit("dimensionality") /\ decomp_model' = decomp_model
           ELSE decomp_model' = branch /\ Goto("reduce")
    /\ UNCHANGED <<inputs, i, outputs, ingestion, selection, fit_input, reduced_data,
                   classes, writing>>

AllFinite(m) == \A r \in 1..NRows(m) : \A c \in 1..NCols(m) : IsFinite(m.v[r][c])

\* lines 230-236: the optional log2(counts + 1), then fit_transform.  The
\* estimators validate their input and raise ValueError for an empty matrix
\* or one holding NaN or infinity; otherwise one row of num_dimensions
\* coordinates per spot comes back.
Reduce ==
    /\ pc = "reduce"
    /\ norm_counts' = IF use_log_scale THEN LogFrame(norm_counts) ELSE norm_counts
    /\ fit_input' = [given |-> TRUE, v |-> norm_counts'.v]
    /\ IF NRows(norm_counts') = 0 \/ NCols(norm_counts') = 0 \/ ~AllFinite(norm_counts')
       THEN Raise("ValueError") /\ reduced_data' = reduced_data
       ELSE /\ reduced_data' = [r \in 1..NRows(norm_counts') |->
                                  [a \in 1..num_dimensions |-> reducer_response[r][a]]]
            /\ Goto("select_clusterer")
    /\ UNCHANGED <<inputs, i, outputs, ingestion, min_genes_spot_exp, norm_applied,
                   normalized_files, decomp_model, classes, writing>>

\* lines 239-247: the clusterer is built, or the name is rejected
SelectClusterer ==
    /\ pc = "select_clusterer"
    /\ LET branch == ClustererBranch(clustering_algorithm)
       IN  IF branch = "none"
           THEN Exit("clustering") /\ clustering' = clustering
           ELSE clustering' = branch /\ Goto("cluster")
    /\ UNCHANGED <<inputs, i, outputs, ingestion, selection, reduction, labels,
                   labels_colors, axes_read, writing>>

\* line 251: labels = clustering.fit_predict(reduced_data), one label per row
Cluster ==
    /\ pc = "cluster"
    /\ labels' = [r \in 1..Len(reduced_data) |-> clusterer_response[r]]
    /\ Goto("shift_labels")
    /\ UNCHANGED <<inputs, i, outputs, ingestion, selection, reduction, clustering,
                   labels_colors, axes_read, writing>>

\* a faulty post-processing that lifts only the labels that are 0
ShiftedLabels_ZerosOnly(ls) == [r \in 1..Len(ls) |-> IF ls[r] = 0 THEN 1 ELSE ls[r]]

\* line 252: if 0 in labels: labels = labels + 1
ShiftedLabels(ls) == IF 0 \in Range(ls) THEN [r \in 1..Len(ls) |-> ls[r] + 1] ELSE ls

ShiftLabels ==
    /\ pc = "shift_labels"
    /\ labels' = ShiftedLabels(labels)
    /\ Goto("color")
    /\ UNCHANGED <<inputs, i, outputs, ingestion, selection, reduction, clustering,
                   labels_colors, axes_read, writing>>

\* linear_conv (lines 47-48), on numpy floats: a zero divisor gives nan or inf
linear_conv(old, min, max, new_min, new_max) ==
    VMul(VDiv(VSub(old, min), VSub(max, min)), VAdd(VSub(new_max, new_min), new_min))

\* line 264 takes the z values from reduced_data[:,3]
ZValueAxis == 3
\* lines 265-266 take z_max and z_min from reduced_data[:,2]
ZRangeAxis == 2

\* reduced_data[:,a] for a 0-based axis a
Axis(rd, a) == [r \in 1..Len(rd) |-> Num(rd[r][a + 1], 1)]

MaxOf(s) == CHOOSE x \in Range(s) : \A y \in Range(s) : VLe(y, x)
MinOf(s) == CHOOSE x \in Range(s) : \A y \in Range(s) : VLe(x, y)

\* lines 267-271: the colour of every spot
ColourTriples(rd, x_p, y_p, z_p, z_min, z_max) ==
    [r \in 1..Len(rd) |->
       <<linear_conv(x_p[r], MinOf(x_p), MaxOf(x_p), Zero, One),
         linear_conv(y_p[r], MinOf(y_p), MaxOf(y_p), Zero, One),
         IF num_dimensions = 3 THEN linear_conv(z_p[r], z_min, z_max, Zero, One) ELSE One>>]

\* lines 254-271: the colour encoder; an axis index beyond the columns of
\* reduced_data raises IndexError
ColorEncode ==
    /\ pc = "color"
    /\ LET x_p == Axis(reduced_data, 0)
           y_p == Axis(reduced_data, 1)
       IN  IF num_dimensions = 3
           THEN /\ axes_read' = IF ZValueAxis < num_dimensions
                                THEN {0, 1, ZValueAxis, ZRangeAxis}
                                ELSE {0, 1, ZValueAxis}
                /\ IF ZValueAxis < num_dimensions /\ ZRangeAxis < num_dimensions
                   THEN /\ labels_colors' =
                              ColourTriples(reduced_data, x_p, y_p,
                                            Axis(reduced_data, ZValueAxis),
                                            MinOf(Axis(reduced_data, ZRangeAxis)),
                                            MaxOf(Axis(reduced_data, ZRangeAxis)))
                        /\ Goto("plot")
                   ELSE Raise("IndexError") /\ labels_colors' = labels_colors
           ELSE /\ axes_read' = {0, 1}
                /\ labels_colors' = ColourTriples(reduced_data, x_p, y_p, y_p, Zero, Zero)
                /\ Goto("plot")
    /\ UNCHANGED <<inputs, i, outputs, ingestion, selection, reduction, clustering,
                   labels, writing>>

\* lines 273-292: the scatter plot of the classes
Plot ==
    /\ pc = "plot"
    /\ outputs' = outputs \cup {<<"computed_classes_png", 0>>}
    /\ Goto("open_writers")
    /\ UNCHANGED <<inputs, i, ingestion, selection, reduction, classes, writing>>

\* lines 295-301: one writer per dataset, all opened before any row is written
OpenWriters ==
    /\ pc = "open_writers"
    /\ IF Len(labels) # NRows(norm_counts)
       THEN Raise("AssertionError") /\ UNCHANGED <<outputs, writing>>
       ELSE /\ file_writers' = [d \in 1..NumDatasets |-> "open"]
            /\ label_files' = [d \in 1..NumDatasets |-> <<>>]
            /\ outputs' = outputs \cup {<<"computed_classes_txt", d>> : d \in 0..(NumDatasets - 1)}
            /\ Goto(IF NRows(norm_counts) > 0 THEN "write_rows" ELSE "close_writers")
    /\ i' = 0
    /\ UNCHANGED <<inputs, ingestion, selection, reduction, classes>>

\* "{}x{}".format(x, y), x and y being floats
CoordinateText(x, y) == FormatFloat(x) \o <<"x">> \o FormatFloat(y)

\* lines 303-314: the row of spot number i goes to the writer of its dataset
WriteRow ==
    /\ pc = "write_rows"
    /\ i < NRows(norm_counts)
    /\ LET bc == norm_counts.index[i + 1]
           tokens == SpotTokens(bc)
           head == Split(tokens[1], "_")
       IN  IF Len(tokens) # 2
           THEN Raise("AssertionError") /\ label_files' = label_files
           ELSE IF ~ParseFloat(tokens[2]).ok \/ Len(head) < 2
           THEN Raise(IF ~ParseFloat(tokens[2]).ok THEN "ValueError" ELSE "IndexError")
                /\ label_files' = label_files
           ELSE IF ~ParseFloat(head[2]).ok \/ ~AllDigits(head[1]) \/ head[1] = <<>>
           THEN Raise("ValueError") /\ label_files' = label_files
           ELSE IF DatasetIndexOf(bc) >= NumDatasets
           THEN Raise("IndexError") /\ label_files' = label_files
           ELSE /\ label_files' =
                      [label_files EXCEPT ![DatasetIndexOf(bc) + 1] =
                          Append(@, [label |-> labels[i + 1],
                                     spot |-> CoordinateText(ParseFloat(head[2]).val,
                                                             ParseFloat(tokens[2]).val)])]
                /\ Goto(IF i + 1 < NRows(norm_counts) THEN "write_rows" ELSE "close_writers")
    /\ i' = IF i + 1 < NRows(norm_counts) THEN i + 1 ELSE 0
    /\ UNCHANGED <<inputs, outputs, ingestion, selection, reduction, classes, file_writers>>

\* lines 316-318: the writers are closed one after the other
CloseWriter ==
    /\ pc = "close_writers"
    /\ i < NumDatasets
    /\ file_writers' = [file_writers EXCEPT ![i + 1] = "closed"]
    /\ i' = IF i + 1 < NumDatasets THEN i + 1 ELSE 0
    /\ Goto(IF i + 1 < NumDatasets THEN "close_writers"
            ELSE IF ~image_files.none /\ image_files.len > 0 THEN "overlay" ELSE "done")
    /\ UNCHANGED <<inputs, outputs, ingestion, selection, reduction, classes, label_files>>

\* lines 320-350: the two overlay plots of image number i; alignment_files[i]
\* is read when len(alignment_files) >= i
Overlay ==
    /\ pc = "overlay"
    /\ i < image_files.len
    /\ IF ~alignment_files.none /\ alignment_files.len >= i /\ ~(i < alignment_files.len)
       THEN Raise("IndexError") /\ UNCHANGED <<outputs, i>>
       ELSE /\ outputs' = outputs \cup {<<"computed_classes_tissue", i>>,
                                         <<"dimensionality_color_tissue", i>>}
            /\ i' = i + 1
            /\ Goto(IF i + 1 < image_files.len THEN "overlay" ELSE "done")
    /\ UNCHANGED <<inputs, ingestion, selection, reduction, classes, writing>>

Next ==
    \/ Validate
    \/ Ingest
    \/ CleanMerged
    \/ SampleNormalize
    \/ SpotFilter
    \/ GeneFilter
    \/ PerSpotNormalize
    \/ VarianceFilter
    \/ WriteNormalized
    \/ SelectReducer
    \/ Reduce
    \/ SelectClusterer
    \/ Cluster
    \/ ShiftLabels
    \/ ColorEncode
    \/ Plot
    \/ OpenWriters
    \/ WriteRow
    \/ CloseWriter
    \/ Overlay

\* ----------------------------------------------------------------- inputs
NoFiles == [none |-> TRUE, len |-> 0]
Files(n) == [none |-> FALSE, len |-> n]

\* spot keys "XxY" of the input tables
k1x1 == <<"1", "x", "1">>
k1x2 == <<"1", "x", "2">>
k2x1 == <<"2", "x", "1">>
k10x2 == <<"1", "0", "x", "2">>
k1p5x2 == <<"1", ".", "5", "x", "2">>
k3p0x4 == <<"3", ".", "0", "x", "4">>

Table(keys, genes, rows) == [isfile |-> TRUE, keys |-> keys, genes |-> genes, rows |-> rows]

MissingFile == [isfile |-> FALSE, keys |-> <<>>, genes |-> <<>>, rows |-> <<>>]

\* every table of counts 0..MaxCount with the given keys and genes
Tables(keys, genes) ==
    {Table(keys, genes, rows) : rows \in [1..Len(keys) -> [1..Len(genes) -> 0..MaxCount]]}

TotalSpots(tables) == SumSeq([t \in 1..Len(tables) |-> Len(tables[t].keys)])

\* names that are no strategy
sEmpty == <<>>
sDE == <<"D", "E">>
sLog == <<"L", "o", "g">>
sFoo == <<"f", "o", "o">>

NormalizationNames == {sRAW, sDESeq, sDESeq2, sDESeq2Log, sEdgeR, sREL}
ReducerNames == {stSNE, sPCA, sICA, sSPCA}
ClustererNames == {sKMeans, sHierarchical}

\* the state main() starts in, for one choice of arguments and of the answers
\* of the reducer and the clusterer
Start(tables, norm, dim, clu, log, samp, exp_genes, genes_keep, ali, img, dims, rr, cr) ==
    /\ counts_table_files = tables
    /\ normalization = norm
    /\ dimensionality_algorithm = dim
    /\ clustering_algorithm = clu
    /\ use_log_scale = log
    /\ apply_sample_normalization = samp
    /\ num_exp_genes = exp_genes
    /\ num_genes_keep = genes_keep
    /\ alignment_files = ali
    /\ image_files = img
    /\ num_dimensions = dims
    /\ reducer_response = rr
    /\ clusterer_response = cr
    /\ pc = "validate"
    /\ error = "none"
    /\ i = 0
    /\ outputs = {}
    /\ counts = EmptyFrame
    /\ sample_counts = <<>>
    /\ min_genes_spot_exp = NaN
    /\ norm_counts = EmptyFrame
    /\ norm_applied = "none"
    /\ normalized_files = <<>>
    /\ decomp_model = "none"
    /\ fit_input = [given |-> FALSE, v |-> <<>>]
    /\ reduced_data = <<>>
    /\ clustering = "none"
    /\ labels = <<>>
    /\ labels_colors = <<>>
    /\ axes_read = {}
    /\ file_writers = <<>>
    /\ label_files = <<>>

\* a fixed answer of the reducer: distinct coordinates on every axis
SpreadCoords(n) == [r \in 1..n |-> <<r - 1, n - r, r - 1>>]
\* a fixed answer of the clusterer
SpreadLabels(n) == [r \in 1..n |-> r - 1]

Percentages == {0, 25, 50, 100}

\* one dataset of three spots and two genes, every matrix of counts; the
\* filters and the strategies that need no size factor
InitCounts ==
    \E t \in Tables(<<k1x1, k1x2, k2x1>>, GeneOrder), norm \in {sREL, sRAW},
       exp_genes \in Percentages, genes_keep \in {0, 50} :
        Start(<<t>>, norm, sPCA, sKMeans, FALSE, FALSE, exp_genes, genes_keep,
              NoFiles, NoFiles, 2, SpreadCoords(3), SpreadLabels(3))

\* two datasets of one spot, the second with one or two genes: the merge, the
\* cross-dataset normalization, the size-factor strategies, the log scale
InitMerge ==
    \E t0 \in Tables(<<k1x1>>, GeneOrder),
       t1 \in Tables(<<k1x2>>, GeneOrder) \cup Tables(<<k1x2>>, <<"A">>),
       norm \in {sRAW, sDESeq}, samp \in BOOLEAN, log \in BOOLEAN :
        Start(<<t0, t1>>, norm, sICA, sHierarchical, log, samp, 0, 0,
              NoFiles, NoFiles, 2, SpreadCoords(2), SpreadLabels(2))

TwoTables == <<Table(<<k1x1, k1x2>>, GeneOrder, <<<<1, 1>>, <<1, 0>>>>),
               Table(<<k1x1>>, GeneOrder, <<<<1, 1>>>>)>>

\* every configured name, valid or not, on a fixed input
InitNames ==
    \E norm \in NormalizationNames \cup {sEmpty, sDE, sLog, sFoo},
       dim \in ReducerNames \cup {sEmpty, sFoo},
       clu \in ClustererNames \cup {sFoo} :
        Start(TwoTables, norm, dim, clu, FALSE, FALSE, 0, 0,
              NoFiles, NoFiles, 2, SpreadCoords(3), SpreadLabels(3))

FileArgs == {NoFiles, Files(0), Files(1), Files(2)}

\* every combination of image and alignment lists, and a missing input
InitFiles ==
    \E tables \in {TwoTables, <<TwoTables[1], MissingFile>>, <<>>},
       img \in FileArgs, ali \in FileArgs :
        Start(tables, sRAW, sPCA, sKMeans, FALSE, FALSE, 0, 0,
              ali, img, 2, SpreadCoords(3), SpreadLabels(3))

KeySet == {k1x1, k10x2, k1p5x2, k3p0x4}

Ones(keys) == Table(keys, GeneOrder, [r \in 1..Len(keys) |-> <<1, 1>>])

\* one or two datasets of one or two spots with keys of several spellings
KeyTables ==
    LET lists == {<<a>> : a \in KeySet} \cup {p \in KeySet \X KeySet : p[1] # p[2]}
    IN  {<<Ones(l)>> : l \in lists} \cup {<<Ones(l), Ones(<<a>>)>> : l \in lists, a \in {k1x1, k2x1}}

\* every answer of the clusterer, for inputs of several shapes and keys
InitLabels ==
    \E tables \in KeyTables, dims \in {2, 3} :
        \E cr \in [1..TotalSpots(tables) -> 0..MaxLabel] :
            Start(tables, sRAW, sPCA, sKMeans, FALSE, FALSE, 0, 0,
                  NoFiles, NoFiles, dims, SpreadCoords(TotalSpots(tables)), cr)

\* every answer of the reducer on the fixed input
InitCoords ==
    \E dims \in {2, 3} :
        \E xy \in [1..3 -> [1..2 -> 0..MaxCoord]] :
            Start(TwoTables, sRAW, sPCA, sKMeans, FALSE, FALSE, 0, 0,
                  NoFiles, NoFiles, dims, [r \in 1..3 |-> <<xy[r][1], xy[r][2], r - 1>>],
                  SpreadLabels(3))

Init ==
    \/ InitCounts
    \/ InitMerge
    \/ InitNames
    \/ InitFiles
    \/ InitLabels
    \/ InitCoords

Spec == Init /\ [][Next]_vars

\* ================================================================ claims
\* positions of main() from which the named stage has finished
AfterNormalize == {"variance_filter", "write_normalized", "select_reducer", "reduce",
                   "select_clusterer", "cluster", "shift_labels", "color", "plot",
                   "open_writers", "write_rows", "close_writers", "overlay", "done"}
AfterSelectReducer == AfterNormalize \ {"variance_filter", "write_normalized", "select_reducer"}
RowsWritten == {"close_writers", "overlay", "done"}

ConfigurationErrors == {"normalization", "dimensionality", "clustering", "images", "alignments"}

\* C2: a run that ends in a configuration error has written no output file.
C2_ConfigErrorBeforeOutput ==
    (pc = "exit" /\ error \in ConfigurationErrors) => outputs = {}

\* the strategy a name denotes when names are compared for equality
ExactStrategy(name) ==
    IF name = sRAW THEN "RAW"
    ELSE IF name = sDESeq THEN "DESeq"
    ELSE IF name = sDESeq2 THEN "DESeq2"
    ELSE IF name = sDESeq2Log THEN "DESeq2Log"
    ELSE IF name = sEdgeR THEN "EdgeR"
    ELSE IF name = sREL THEN "REL"
    ELSE "none"

\* C3: a normalization strategy runs only for a name that is exactly one of the
\* six, and it is the strategy of that name; any other name is a fatal
\* configuration error with no normalization done.
C3_ExactNormalizationNames ==
    /\ norm_applied = "none" \/ norm_applied = ExactStrategy(normalization)
    /\ (pc \in AfterNormalize \cup {"exit", "crashed"} /\ error # "input"
        /\ error # "images" /\ error # "alignments" /\ error # "TypeError"
        /\ ExactStrategy(normalization) = "none")
          => (pc = "exit" /\ error = "normalization" /\ norm_applied = "none")

\* the algorithm a reducer name denotes
ExactReducer(name) ==
    IF name = stSNE THEN "TSNE"
    ELSE IF name = sPCA THEN "PCA"
    ELSE IF name = sICA THEN "FastICA"
    ELSE IF name = sSPCA THEN "SparsePCA"
    ELSE "none"

\* C4: each of the four reducer names builds its own algorithm (SPCA builds
\* sparse PCA), and any other name is fatal.
C4_ReducerDispatch ==
    /\ decomp_model = "none" \/ decomp_model = ExactReducer(dimensionality_algorithm)
    /\ (pc \in AfterSelectReducer /\ ExactReducer(dimensionality_algorithm) = "none") => FALSE

\* C5: every component of every colour triple is a number within [0, 1].
C5_ColoursInUnitCube ==
    \A r \in 1..Len(labels_colors) : \A c \in 1..3 :
        /\ IsNum(labels_colors[r][c])
        /\ VLe(Zero, labels_colors[r][c])
        /\ VLe(labels_colors[r][c], One)

\* C6: the colour encoder reads only the axes 0..num_dimensions-1 of the
\* reducer's output, the third axis (index 2) for three dimensions; for two
\* dimensions blue is fixed at 1.0.
C6_ZAxisInRange ==
    /\ \A a \in axes_read : a < num_dimensions
    /\ (num_dimensions = 3 /\ axes_read # {}) => axes_read = {0, 1, 2}
    /\ (num_dimensions = 2) => \A r \in 1..Len(labels_colors) : labels_colors[r][3] = One

\* C7: the post-processing of the labels leaves every label >= 1: with a 0
\* among them every label grows by exactly 1, so that two spots share a label
\* afterwards iff they did before; without a 0 the labels stay as they are.
C7_LabelsShifted ==
    [][pc = "shift_labels" =>
         /\ Len(labels') = Len(labels)
         /\ \A r \in 1..Len(labels') : labels'[r] >= 1
         /\ (\E r \in 1..Len(labels) : labels[r] = 0)
               => \A r \in 1..Len(labels) : labels'[r] = labels[r] + 1
         /\ (\A r \in 1..Len(labels) : labels[r] # 0) => labels' = labels
         /\ \A r, q \in 1..Len(labels) :
               (labels'[r] = labels'[q]) <=> (labels[r] = labels[q])]_vars

\* C7 happens: two spots with different labels, the first shifted from the
\* clusterer's answer 0
C7_Witness ==
    /\ pc = "color"
    /\ Len(labels) >= 2
    /\ clusterer_response[1] = 0
    /\ labels[1] = 1
    /\ labels[2] = clusterer_response[2] + 1
    /\ labels[2] # labels[1]

\* 100 times the q-th quantile of the integers s (ascending), q = percent/100,
\* by linear interpolation in integer arithmetic
Quantile100(s, percent) ==
    LET h == percent * (Len(s) - 1)
        lo == (h \div 100) + 1
    IN  IF h % 100 = 0 THEN 100 * s[lo]
        ELSE 100 * s[lo] + (s[lo + 1] - s[lo]) * (h % 100)

\* the number of non-zero entries of row r of a frame
Expressed(m, r) == Cardinality({c \in 1..NCols(m) : m.v[r][c] # Zero})

\* C8: the spot filter keeps exactly the spots whose number of non-zero genes
\* is at least the rounded quantile, unchanged and in order; the spots after it
\* are among those before it, and with num_exp_genes = 0 none is dropped.
C8_SpotFilterMonotone ==
    [][pc = "spot_filter" =>
         LET n == NRows(counts)
             expressed == [r \in 1..n |-> Expressed(counts, r)]
             order == SortValues([r \in 1..n |-> Num(expressed[r], 1)])
             threshold == (Quantile100([r \in 1..n |-> order[r].n], num_exp_genes) + 50) \div 100
             kept == {r \in 1..n : expressed[r] >= threshold}
         IN  /\ min_genes_spot_exp' = Num(threshold, 1)
             /\ Range(counts'.index) \subseteq Range(counts.index)
             /\ NRows(counts') <= n
             /\ \A r \in 1..n : (counts.index[r] \in Range(counts'.index)) <=> (r \in kept)
             /\ \A q \in 1..NRows(counts') :
                   \E r \in kept : /\ counts'.index[q] = counts.index[r]
                                   /\ counts'.v[q] = counts.v[r]
                                   /\ Cardinality({k \in kept : k <= r}) = q
             /\ (num_exp_genes = 0) => counts' = counts]_vars

\* C8 happens: the first quartile of the expressed-gene counts, interpolated
\* and rounded up to 1, dropped one spot of three and kept two
C8_Witness ==
    /\ pc = "gene_filter"
    /\ num_exp_genes = 25
    /\ min_genes_spot_exp = One
    /\ TotalSpots(counts_table_files) = 3
    /\ NRows(counts) = 2

\* the keys of dataset d (0-based) whose tagged spot survives in the frame m
SurvivingKeys(m, d) ==
    SelectSeq(counts_table_files[d + 1].keys, LAMBDA key : TagSpot(d, key) \in Range(m.index))

\* the tagged spots of all the datasets, in input order
RECURSIVE TaggedUpTo(_)
TaggedUpTo(n) ==
    IF n = 0 THEN <<>>
    ELSE TaggedUpTo(n - 1)
         \o [r \in 1..Len(counts_table_files[n].keys) |->
               TagSpot(n - 1, counts_table_files[n].keys[r])]

\* C9: after ingestion every spot identifier is "{datasetIndex}_{originalKey}"
\* and the identifiers are pairwise distinct; in the output files the spots of
\* dataset i carry exactly their original keys, character for character.
C9_KeysRecovered ==
    /\ (pc = "clean") =>
          /\ counts.index = TaggedUpTo(NumDatasets)
          /\ \A r, q \in 1..NRows(counts) : counts.index[r] = counts.index[q] => r = q
    /\ \A d \in 1..Len(normalized_files) :
          normalized_files[d] = SurvivingKeys(norm_counts, d - 1)
    /\ (pc \in RowsWritten) =>
          \A d \in 1..Len(label_files) :
             [r \in 1..Len(label_files[d]) |-> label_files[d][r].spot]
                = SurvivingKeys(norm_counts, d - 1)

\* the labels, in order, of those of the first k spots of the frame that have
\* the prefix of dataset d
LabelsOfDataset(m, ls, d, k) ==
    LET rows == Asc({r \in 1..k : StartsWith(m.index[r], DatasetPrefix(d))})
    IN  [j \in 1..Len(rows) |-> ls[rows[j]]]

\* C10: from the opening of the label files on, the file of dataset i holds
\* exactly the labels of the spots written so far that have the prefix "{i}_",
\* each spot's own label and in order, and no other row; once the loop is
\* over every clustered spot is in exactly one file, the file of dataset i has
\* as many rows as dataset i has surviving spots, and the rows of all files
\* sum to the number of labels.
C10_RowsPartitioned ==
    (file_writers # <<>>) =>
        LET written == SumSeq([d \in 1..NumDatasets |-> Len(label_files[d])])
        IN  /\ Len(labels) = NRows(norm_counts)
            /\ Len(labels) = Len(reduced_data)
            /\ Len(label_files) = NumDatasets
            /\ written <= Len(labels)
            /\ (pc = "write_rows") => written = i
            /\ \A d \in 1..NumDatasets :
                  [r \in 1..Len(label_files[d]) |-> label_files[d][r].label]
                     = LabelsOfDataset(norm_counts, labels, d - 1, written)
            /\ (pc \in RowsWritten) =>
                  /\ written = Len(labels)
                  /\ \A d \in 1..NumDatasets :
                        Len(label_files[d]) = Len(SurvivingKeys(norm_counts, d - 1))

\* C10 happens: two datasets, each with rows in its own file, with different labels
C10_Witness ==
    /\ pc = "done"
    /\ NumDatasets = 2
    /\ Len(label_files[1]) = 2
    /\ Len(label_files[2]) = 1
    /\ label_files[1][2].label # label_files[2][1].label
    /\ label_files[1][1].label # label_files[1][2].label

\* C11: a label file is open only while the rows of its own dataset are being
\* written: the label files of two different datasets are never open at the
\* same time, an open file belongs to the dataset of the row being written or
\* just written, and every file is closed once the overlay plots begin or the
\* run is over.
C11_OneWriterAtATime ==
    /\ \A d, e \in 1..Len(file_writers) :
          (file_writers[d] = "open" /\ file_writers[e] = "open") => d = e
    /\ \A d \in 1..Len(file_writers) :
          (file_writers[d] = "open") => pc \in {"write_rows", "close_writers"}
    /\ (pc \in {"overlay", "done"}) =>
          \A d \in 1..Len(file_writers) : file_writers[d] = "closed"

====
